---- MODULE Spec2Model ----
(***************************************************************************)
(* Precision RAG: the ingestion pipeline (backend/services/ingest.py) and  *)
(* the query pipeline (backend/services/query.py, backend/app.py).         *)
(*                                                                         *)
(* Texts are sequences of one-character strings; offsets are 0-based and   *)
(* half-open as in Python.                                                 *)
(***************************************************************************)
EXTENDS Integers, Sequences, FiniteSets, TLC

VARIABLES
    chunk_overlap,   \* settings.chunk_overlap (config.py:26, read from the environment)
    fb,              \* one call of _find_chunk_bounds: its arguments and its result
    OCR_AVAILABLE,   \* ingest.py:19-26, set once at import
    concurrent,      \* whether the host serves two uploads at the same time
    pdf,             \* the uploaded document: what each strategy yields on each page
    collection,      \* the vector store's entries, in insertion order
    run,             \* the process_pdf calls: position, locals and stats of each
    bq,              \* one call of retrieve_chunks on given store results
    bc,              \* one call of build_citations: its arguments and its result
    qry,             \* one /query request: position, locals, generator calls, response
    nt,              \* one call of _normalize_text, and a second one on its result
    det,             \* one call of _detect_orientation: what OSD and OCR do, its result
    xp,              \* the extraction chain on one page: what each strategy does, its result
    oc               \* one call of extract_text_with_ocr_from_image

ingest_vars == <<OCR_AVAILABLE, concurrent, pdf, collection, run>>

query_vars == <<bq, bc, qry>>

call_vars == <<nt, det, xp, oc>>

vars == <<chunk_overlap, fb, OCR_AVAILABLE, concurrent, pdf, collection, run, bq, bc, qry,
          nt, det, xp, oc>>

----------------------------------------------------------------------------
(* Bounds *)

MaxLen == 3        \* longest page text of a _find_chunk_bounds call
MaxChunkLen == 2   \* longest chunk text of a _find_chunk_bounds call
MaxOverlap == 1    \* largest configured chunk_overlap
MaxPages == 2      \* most pages of an uploaded document
MaxChunks == 2     \* most chunks the splitter makes of one page
MaxRanked == 2     \* most chunks the store returns for a query
MaxTokens == 2     \* most pieces (markers, other text) of an answer
MaxDocLen == 3     \* longest chunk text of a retrieve_chunks call on its own
MaxBudget == 4     \* largest max_chars of a retrieve_chunks call on its own
MaxNormLen == 5    \* longest text of a _normalize_text call on its own
MaxOsdLines == 2   \* most lines of an OSD report
MaxProbeLen == 1   \* most letters OCR reads off a rotated image

----------------------------------------------------------------------------
(* Strings *)

Min(S) == CHOOSE x \in S : \A y \in S : x <= y

Max(a, b) == IF a >= b THEN a ELSE b

SeqsUpTo(S, n) == UNION {[1..k -> S] : k \in 0..n}

\* s[i:j] for 0 <= i <= j <= len(s)
Slice(s, i, j) == SubSeq(s, i + 1, j)

\* str.find(sub, start) for start >= 0: the lowest index >= start at which sub
\* occurs, -1 when there is none (the empty string occurs at every index <= len).
StrFind(s, sub, start) ==
    LET hits == {i \in start..(Len(s) - Len(sub)) : Slice(s, i, i + Len(sub)) = sub}
    IN  IF hits = {} THEN -1 ELSE Min(hits)

----------------------------------------------------------------------------
(* ingest.py: _find_chunk_bounds *)

\* A variant that collapses the fallback span to the end of the page.
_find_chunk_bounds_collapsed(page_text, chunk_text, search_start) ==
    LET idx1 == StrFind(page_text, chunk_text, search_start)
        idx2 == IF idx1 = -1 THEN StrFind(page_text, chunk_text, 0) ELSE idx1
        end_idx == IF idx2 = -1 THEN Len(page_text) ELSE idx2 + Len(chunk_text)
        idx  == IF idx2 = -1 THEN Len(page_text) ELSE idx2
    IN  <<idx, end_idx, Max(0, end_idx - chunk_overlap)>>

\* A variant without the unconstrained retry from the start of the page.
_find_chunk_bounds_no_retry(page_text, chunk_text, search_start) ==
    LET idx1 == StrFind(page_text, chunk_text, search_start)
        idx  == IF idx1 = -1 THEN Len(page_text) ELSE idx1
        end_idx == idx + Len(chunk_text)
    IN  <<idx, end_idx, Max(0, end_idx - chunk_overlap)>>

\* Returns <<start, end, new_search_start>>.
_find_chunk_bounds(page_text, chunk_text, search_start) ==
    LET idx1 == StrFind(page_text, chunk_text, search_start)
        idx2 == IF idx1 = -1 THEN StrFind(page_text, chunk_text, 0) ELSE idx1
        idx  == IF idx2 = -1 THEN Len(page_text) ELSE idx2
        end_idx == idx + Len(chunk_text)
        next_search == Max(0, end_idx - chunk_overlap)
    IN  <<idx, end_idx, next_search>>

NoCall == [called |-> FALSE, page_text |-> <<>>, chunk_text |-> <<>>,
           search_start |-> 0, result |-> <<0, 0, 0>>]

----------------------------------------------------------------------------
(* ingest.py: helpers *)

IsSpace(c) == c \in {" ", "\n", "\t"}

\* str.strip() leaves nothing: the text is empty or whitespace only
IsBlank(text) == \A i \in 1..Len(text) : IsSpace(text[i])

RECURSIVE SplitWords(_)
\* str.split(): the maximal runs of non-whitespace characters, in order
SplitWords(text) ==
    IF text = <<>> THEN <<>>
    ELSE IF IsSpace(Head(text)) THEN SplitWords(Tail(text))
    ELSE LET ends == {i \in 1..Len(text) : i = Len(text) \/ IsSpace(text[i + 1])}
             e == Min(ends)
         IN  <<SubSeq(text, 1, e)>> \o SplitWords(SubSeq(text, e + 1, Len(text)))

RECURSIVE JoinSpace(_)
\* " ".join(words)
JoinSpace(words) ==
    IF words = <<>> THEN <<>>
    ELSE IF Len(words) = 1 THEN words[1]
    ELSE words[1] \o <<" ">> \o JoinSpace(Tail(words))

\* A variant that drops the whitespace instead of collapsing it.
_normalize_text_squeezed(text) == SelectSeq(text, LAMBDA c : ~IsSpace(c))

\* Line 34: " ".join(text.split())
_normalize_text(text) == JoinSpace(SplitWords(text))

\* hashlib.sha256(text).hexdigest(): a digest that stands for the text hashed
_chunk_sha(text) == <<"sha256", text>>

\* sha256(str(pdf_path)).hexdigest()[:12]
file_tag(pdf_path) == <<"sha256_12", pdf_path>>

\* f"{file_tag}_page_{page_number}_chunk_{chunk_idx}_{char_start}": the four
\* parts are separated by fixed words, so the id stands for the four of them.
ChunkId(tag, page_number, chunk_idx, start) == <<tag, page_number, chunk_idx, start>>

----------------------------------------------------------------------------
(* The vector store (backend.vector_store.client, get_collection): get and   *)
(* add by id; add is idempotent per id (the entry of an id already held is   *)
(* overwritten in place, not duplicated).                                    *)

StoreIds(coll) == {coll[i].id : i \in 1..Len(coll)}

\* collection.get(ids=ids)["ids"]
StoreGet(coll, ids) == {id \in ids : id \in StoreIds(coll)}

RECURSIVE StoreAdd(_, _)
StoreAdd(coll, items) ==
    IF items = <<>> THEN coll
    ELSE LET it == Head(items)
             at == {i \in 1..Len(coll) : coll[i].id = it.id}
             next == IF at = {} THEN Append(coll, it)
                     ELSE [i \in 1..Len(coll) |-> IF i \in at THEN it ELSE coll[i]]
         IN  StoreAdd(next, Tail(items))

----------------------------------------------------------------------------
(* ingest.py: process_pdf *)

Strategies == <<"direct", "layout", "tables", "ocr">>

\* What a strategy does on a page: it raises, or it yields a text.
Raises == [ok |-> FALSE, text |-> <<>>]
Yields(text) == [ok |-> TRUE, text |-> text]

\* A variant that always tries the layout strategy and prefers what it reads.
ExtractPage_layout_always(page, ocr_available) ==
    [raised |-> ~page.direct.ok,
     raw_text |-> IF page.layout.ok /\ ~IsBlank(page.layout.text)
                  THEN page.layout.text ELSE page.direct.text,
     ocr_used |-> FALSE,
     warn |-> FALSE,
     attempted |-> {"direct", "layout"}]

\* Lines 96-168: the extraction chain on one page. Each field of the page is
\* what that strategy does there. direct (line 96) runs outside any try;
\* layout, tables and OCR run inside one. A page without tables yields "" for
\* the tables strategy (raw_text stays blank either way).
ExtractPage(page, ocr_available) ==
    LET raised == ~page.direct.ok
        t1 == page.direct.text
        try2 == ~raised /\ IsBlank(t1)
        t2 == IF try2 /\ page.layout.ok THEN page.layout.text ELSE t1
        try3 == ~raised /\ IsBlank(t2)
        t3 == IF try3 /\ page.tables.ok THEN page.tables.text ELSE t2
        need4 == ~raised /\ IsBlank(t3)
        try4 == need4 /\ ocr_available
        ocr_ok == try4 /\ page.ocr.ok /\ ~IsBlank(page.ocr.text)
        t4 == IF ocr_ok THEN page.ocr.text ELSE t3
    IN  [raised |-> raised,
         raw_text |-> t4,
         ocr_used |-> ocr_ok,
         warn |-> need4 /\ ~ocr_available,
         attempted |-> {"direct"} \cup (IF try2 THEN {"layout"} ELSE {})
                          \cup (IF try3 THEN {"tables"} ELSE {})
                          \cup (IF try4 THEN {"ocr"} ELSE {})]

RECURSIVE BuildPayload(_, _, _, _, _, _)
\* Lines 185-206: one payload item per chunk, the cursor moving as the spans
\* are found.
BuildPayload(pdf_path, page_number, normalized_text, chunks, chunk_idx, search_start) ==
    IF chunk_idx >= Len(chunks) THEN <<>>
    ELSE LET chunk_text == chunks[chunk_idx + 1]
             b == _find_chunk_bounds(normalized_text, chunk_text, search_start)
             chunk_id == ChunkId(file_tag(pdf_path), page_number, chunk_idx, b[1])
         IN  <<[id |-> chunk_id,
                document |-> chunk_text,
                metadata |-> [source_file |-> pdf_path,
                              page_number |-> page_number,
                              chunk_id |-> chunk_id,
                              char_start |-> b[1],
                              char_end |-> b[2],
                              chunk_sha |-> _chunk_sha(chunk_text)]]>>
             \o BuildPayload(pdf_path, page_number, normalized_text, chunks,
                             chunk_idx + 1, b[3])

\* A variant that forgets the existence filter.
ToAdd_all(payload, existing) == payload

\* A variant with the filter inverted.
ToAdd_inverted(payload, existing) ==
    SelectSeq(payload, LAMBDA item : item.id \in existing)

\* Line 213
ToAdd(payload, existing) ==
    SelectSeq(payload, LAMBDA item : item.id \notin existing)

\* A variant that counts a page as OCR-assisted whenever OCR was attempted.
OcrPages_attempted(x) == IF "ocr" \in x.attempted THEN 1 ELSE 0

\* Lines 161-163: stats["ocr_pages"] += 1 when the OCR text is not blank
OcrPages(x) == IF x.ocr_used THEN 1 ELSE 0

Runs == {1, 2}

NoStats == [pages |-> 0, chunks_added |-> 0, chunks_skipped |-> 0,
            empty_pages |-> 0, ocr_pages |-> 0]

\* get_calls and add_calls count the call's collection.get and collection.add
\* calls so far
IdleRun == [pc |-> "idle", page_index |-> 0, stats |-> NoStats,
            ocr_warning_logged |-> FALSE, payload |-> <<>>, existing |-> {},
            all_ids |-> <<>>, store_at_return |-> <<>>, after |-> {},
            ids |-> <<>>, get_calls |-> 0, add_calls |-> 0]

PdfPath == "Spec.pdf"

Active(r) == run[r].pc \in {"page", "add"}

\* Lines 77-92: the call is entered (the file exists: app.py:56 has saved it)
Start(r) ==
    /\ run[r].pc = "idle"
    /\ concurrent \/ \A o \in Runs \ {r} : ~Active(o)
    /\ run' = [run EXCEPT ![r].pc = "page",
                          ![r].after = {o \in Runs \ {r} : run[o].pc = "done"}]
    /\ UNCHANGED <<call_vars, chunk_overlap, fb, OCR_AVAILABLE, concurrent, pdf, collection, query_vars>>

\* Lines 93-211: the next page is extracted, normalized and chunked, and the
\* existence lookup is made with its ids. Everything before the lookup is local
\* to the call, so the step is atomic at the moment of the lookup.
ProcessPage(r) ==
    /\ run[r].pc = "page"
    /\ run[r].page_index < Len(pdf)
    /\ LET page == pdf[run[r].page_index + 1]
           x == ExtractPage(page, OCR_AVAILABLE)
           normalized_text == _normalize_text(x.raw_text)
           st1 == [run[r].stats EXCEPT !.pages = @ + 1,
                                       !.ocr_pages = @ + OcrPages(x)]
           payload == BuildPayload(PdfPath, run[r].page_index + 1, normalized_text,
                                   page.chunks, 0, 0)
           ids == [i \in 1..Len(payload) |-> payload[i].id]
           existing == IF ids # <<>>
                       THEN StoreGet(collection, {ids[i] : i \in 1..Len(ids)})
                       ELSE {}
       IN  IF x.raised
           THEN run' = [run EXCEPT ![r].pc = "raised"]
           ELSE IF normalized_text = <<>>
           THEN run' = [run EXCEPT ![r].stats = [st1 EXCEPT !.empty_pages = @ + 1],
                                   ![r].ocr_warning_logged = @ \/ x.warn,
                                   ![r].page_index = @ + 1]
           ELSE run' = [run EXCEPT ![r].stats = st1,
                                   ![r].payload = payload,
                                   ![r].existing = existing,
                                   ![r].ids = ids,
                                   ![r].get_calls = IF ids # <<>> THEN @ + 1 ELSE @,
                                   ![r].all_ids = @ \o ids,
                                   ![r].pc = "add"]
    /\ UNCHANGED <<call_vars, chunk_overlap, fb, OCR_AVAILABLE, concurrent, pdf, collection, query_vars>>

\* Lines 213-221: the write of the new items and the page's counts
Add(r) ==
    /\ run[r].pc = "add"
    /\ LET to_add == ToAdd(run[r].payload, run[r].existing)
       IN  /\ collection' = IF to_add # <<>> THEN StoreAdd(collection, to_add)
                            ELSE collection
           /\ run' = [run EXCEPT ![r].stats =
                                     [@ EXCEPT !.chunks_added = @ + Len(to_add),
                                               !.chunks_skipped =
                                                   @ + Len(run[r].payload) - Len(to_add)],
                                 ![r].add_calls = IF to_add # <<>> THEN @ + 1 ELSE @,
                                 ![r].ids = <<>>,
                                 ![r].page_index = @ + 1,
                                 ![r].payload = <<>>,
                                 ![r].existing = {},
                                 ![r].pc = "page"]
    /\ UNCHANGED <<call_vars, chunk_overlap, fb, OCR_AVAILABLE, concurrent, pdf, query_vars>>

\* Lines 223-245: the stats are returned
Return(r) ==
    /\ run[r].pc = "page"
    /\ run[r].page_index = Len(pdf)
    /\ run' = [run EXCEPT ![r].pc = "done", ![r].store_at_return = collection]
    /\ UNCHANGED <<call_vars, chunk_overlap, fb, OCR_AVAILABLE, concurrent, pdf, collection, query_vars>>

NextIngest ==
    \E r \in Runs : Start(r) \/ ProcessPage(r) \/ Add(r) \/ Return(r)

IngestIdle ==
    /\ OCR_AVAILABLE = FALSE
    /\ concurrent = FALSE
    /\ pdf = <<>>
    /\ collection = <<>>
    /\ run = [r \in Runs |-> [IdleRun EXCEPT !.pc = "done"]]

----------------------------------------------------------------------------
(* query.py: retrieve_chunks *)

\* A retrieved chunk is [document, metadata]; its document is known by a name
\* and its length in characters. A snippet is the name of the document it is
\* cut from, the number of characters kept and whether "..." follows.
Doc(name, n) == [body |-> name, len |-> n]

Chunk(source_file, page_number, n) ==
    [document |-> Doc(<<source_file, page_number, n>>, n),
     metadata |-> [source_file |-> source_file, page_number |-> page_number]]

RECURSIVE TotalChars(_)
TotalChars(chunks) ==
    IF chunks = <<>> THEN 0 ELSE Head(chunks).document.len + TotalChars(Tail(chunks))

RECURSIVE Budget_ge(_, _, _)
\* A variant that also stops at a chunk that fills the budget exactly.
Budget_ge(combined, total_chars, max_chars) ==
    IF combined = <<>> THEN <<>>
    ELSE LET doc_len == Head(combined).document.len
         IN  IF total_chars + doc_len >= max_chars THEN <<>>
             ELSE <<Head(combined)>>
                  \o Budget_ge(Tail(combined), total_chars + doc_len, max_chars)

RECURSIVE Budget(_, _, _)
\* Lines 78-87: the loop over combined, total_chars so far
Budget(combined, total_chars, max_chars) ==
    IF combined = <<>> THEN <<>>
    ELSE LET doc_len == Head(combined).document.len
         IN  IF total_chars + doc_len > max_chars THEN <<>>
             ELSE <<Head(combined)>>
                  \o Budget(Tail(combined), total_chars + doc_len, max_chars)

\* Lines 52-87, on the ranked results the store query returned
retrieve_chunks(results, max_chars) == Budget(results, 0, max_chars)

DefaultMaxChars == 12000

----------------------------------------------------------------------------
(* query.py: build_citations *)

\* An answer is a sequence of pieces. A "marker" piece is text that
\* CITATION_PATTERN matches, with the digits of its group 1; a "near" piece
\* looks like a marker but is not matched (lower case, as in "[ref: page 1]");
\* a "text" piece is any other text.
Marker(digits) == [kind |-> "marker", digits |-> digits]
Near(digits) == [kind |-> "near", digits |-> digits]
Text == [kind |-> "text", digits |-> <<>>]

RECURSIVE IntOf(_)
\* int(match.group(1)): the decimal value of a string of digits
IntOf(digits) ==
    IF digits = <<>> THEN 0
    ELSE 10 * IntOf(SubSeq(digits, 1, Len(digits) - 1)) + digits[Len(digits)]

SnippetLen == 250

\* Line 146: document[:250] + ("..." if len(document) > 250 else "")
Snippet(document) ==
    [of |-> document.body,
     chars |-> IF document.len > SnippetLen THEN SnippetLen ELSE document.len,
     dots |-> document.len > SnippetLen]

\* Line 158: document[:250]
FallbackSnippet(document) ==
    [of |-> document.body,
     chars |-> IF document.len > SnippetLen THEN SnippetLen ELSE document.len,
     dots |-> FALSE]

HasPage(chunks, page_num) ==
    \E i \in 1..Len(chunks) : chunks[i].metadata.page_number = page_num

\* A variant in which a later chunk of a page replaces the earlier one.
PageToChunk_last(chunks, page_num) ==
    chunks[CHOOSE i \in 1..Len(chunks) :
               /\ chunks[i].metadata.page_number = page_num
               /\ \A j \in 1..Len(chunks) :
                      chunks[j].metadata.page_number = page_num => j <= i]

\* Lines 136-138, 142: page_to_chunk[page_num], the first chunk seen per page
PageToChunk(chunks, page_num) ==
    chunks[Min({i \in 1..Len(chunks) : chunks[i].metadata.page_number = page_num})]

RECURSIVE Scan_renumbered(_, _, _)
\* A variant that numbers the citations kept instead of the matches.
Scan_renumbered(answer, idx, chunks) ==
    IF answer = <<>> THEN <<>>
    ELSE IF Head(answer).kind # "marker" THEN Scan_renumbered(Tail(answer), idx, chunks)
    ELSE LET page_num == IntOf(Head(answer).digits)
         IN  IF ~HasPage(chunks, page_num)
             THEN Scan_renumbered(Tail(answer), idx, chunks)
             ELSE LET chunk == PageToChunk(chunks, page_num)
                  IN  <<[id |-> idx,
                         source_file |-> chunk.metadata.source_file,
                         page_number |-> chunk.metadata.page_number,
                         snippet |-> Snippet(chunk.document)]>>
                      \o Scan_renumbered(Tail(answer), idx + 1, chunks)

RECURSIVE Scan(_, _, _)
\* Lines 140-154: the loop over the matches, idx being the number of the next
\* match
Scan(answer, idx, chunks) ==
    IF answer = <<>> THEN <<>>
    ELSE IF Head(answer).kind # "marker" THEN Scan(Tail(answer), idx, chunks)
    ELSE LET page_num == IntOf(Head(answer).digits)
         IN  IF ~HasPage(chunks, page_num)
             THEN Scan(Tail(answer), idx + 1, chunks)
             ELSE LET chunk == PageToChunk(chunks, page_num)
                  IN  <<[id |-> idx,
                         source_file |-> chunk.metadata.source_file,
                         page_number |-> chunk.metadata.page_number,
                         snippet |-> Snippet(chunk.document)]>>
                      \o Scan(Tail(answer), idx + 1, chunks)

\* A variant that takes the fallback from the last chunk.
Fallback_last(chunks) ==
    LET top == chunks[Len(chunks)]
    IN  <<[id |-> 1,
           source_file |-> top.metadata.source_file,
           page_number |-> top.metadata.page_number,
           snippet |-> FallbackSnippet(top.document)]>>

\* Lines 157-166
Fallback(chunks) ==
    LET top == chunks[1]
    IN  <<[id |-> 1,
           source_file |-> top.metadata.source_file,
           page_number |-> top.metadata.page_number,
           snippet |-> FallbackSnippet(top.document)]>>

\* Lines 133-168
build_citations(answer, chunks) ==
    LET citations == Scan(answer, 1, chunks)
    IN  IF citations = <<>> /\ chunks # <<>> THEN Fallback(chunks) ELSE citations

----------------------------------------------------------------------------
(* query.py: execute_query, app.py: query_rag *)

\* The answer "I cannot find this information in the provided documents."
Refusal == <<[kind |-> "refusal", digits |-> <<>>]>>

\* A variant that never short-circuits.
NoChunks_never(chunks) == FALSE

\* Line 177: if not chunks
NoChunks(chunks) == chunks = <<>>

NoResponse == [status |-> 0, answer_text |-> <<>>, citations |-> <<>>, error |-> ""]

\* fault records what failed on the request, if anything did
IdleQuery == [pc |-> "idle", retrieved |-> FALSE, results |-> <<>>, chunks |-> <<>>,
              gen_calls |-> 0, fault |-> "none", response |-> NoResponse]

NoCite == [called |-> FALSE, answer |-> <<>>, chunks |-> <<>>, citations |-> <<>>]

NoBudget == [called |-> FALSE, combined |-> <<>>, max_chars |-> 0, filtered |-> <<>>]

QueryIdle ==
    /\ bq = NoBudget
    /\ bc = NoCite
    /\ qry = IdleQuery

----------------------------------------------------------------------------
(* ocr.py *)

\* The rotations tried, in the order of the loops (lines 98 and 161)
Angles == <<0, 90, 180, 270>>

AngleSet == {Angles[i] : i \in 1..Len(Angles)}

\* str.strip(): the text from its first to its last non-whitespace character
Strip(text) ==
    LET ns == {i \in 1..Len(text) : ~IsSpace(text[i])}
    IN  IF ns = {} THEN <<>>
        ELSE SubSeq(text, Min(ns), CHOOSE j \in ns : \A i \in ns : i <= j)

\* A variant that lets a later rotation win a tie.
Better_ge(text_length, best_text_length) == text_length >= best_text_length

\* Line 105
Better(text_length, best_text_length) == text_length > best_text_length

RECURSIVE BruteForce(_, _, _, _)
\* Lines 95-112: each rotation is OCRed; one that raises is skipped.
BruteForce(probe, angles, best_angle, best_text_length) ==
    IF angles = <<>> THEN best_angle
    ELSE LET angle == Head(angles)
             text_length == Len(Strip(probe[angle].text))
         IN  IF probe[angle].ok /\ Better(text_length, best_text_length)
             THEN BruteForce(probe, Tail(angles), angle, text_length)
             ELSE BruteForce(probe, Tail(angles), best_angle, best_text_length)

\* A line of the OSD report: whether it holds 'Rotate:' or 'Orientation in
\* degrees:', whether what follows the colon is an integer, and that integer.
OsdLine(keyed, parses, angle) == [keyed |-> keyed, parses |-> parses, angle |-> angle]

\* Lines 74-112: osd is what image_to_osd does (it raises, or reports lines),
\* probe what image_to_string does on each rotation.
_detect_orientation(osd, probe) ==
    LET usable == {i \in 1..Len(osd.lines) : osd.lines[i].keyed /\ osd.lines[i].parses}
    IN  IF osd.ok /\ usable # {}
        THEN osd.lines[Min(usable)].angle
        ELSE BruteForce(probe, Angles, 0, 0)

\* Lines 129-136: OCR at a rotation; an OCR error is logged and "" returned.
_ocr_image(scan, rotation) ==
    IF scan[rotation].ok THEN scan[rotation].text ELSE <<>>

\* A variant that runs the detected rotation a second time.
AlreadyTried_never(angle, best_angle) == FALSE

\* Line 162: if angle == best_angle: continue
AlreadyTried(angle, best_angle) == angle = best_angle

RECURSIVE RetryRotations(_, _, _, _, _)
\* Lines 161-167: the loop over the rotations, left at the first non-blank text
RetryRotations(scan, angles, best_angle, text, tried) ==
    IF angles = <<>> THEN [text |-> text, tried |-> tried]
    ELSE LET angle == Head(angles)
             t == _ocr_image(scan, angle)
         IN  IF AlreadyTried(angle, best_angle)
             THEN RetryRotations(scan, Tail(angles), best_angle, text, tried)
             ELSE IF ~IsBlank(t)
             THEN [text |-> t, tried |-> Append(tried, angle)]
             ELSE RetryRotations(scan, Tail(angles), best_angle, t, Append(tried, angle))

\* Lines 151-169, best_angle being what _detect_orientation returned and scan
\* what OCR does at each rotation: the text returned and the rotations tried.
extract_text_with_ocr_from_image(best_angle, scan) ==
    LET text == _ocr_image(scan, best_angle)
    IN  IF IsBlank(text)
        THEN RetryRotations(scan, Angles, best_angle, text, <<best_angle>>)
        ELSE [text |-> text, tried |-> <<best_angle>>]

NoDetect == [called |-> FALSE, osd |-> [ok |-> FALSE, lines |-> <<>>],
             probe |-> [a \in AngleSet |-> Raises], angle |-> 0]

NoExtract == [called |-> FALSE,
              page |-> [direct |-> Raises, layout |-> Raises, tables |-> Raises,
                        ocr |-> Raises],
              ocr_available |-> FALSE,
              out |-> [raised |-> FALSE, raw_text |-> <<>>, ocr_used |-> FALSE,
                       warn |-> FALSE, attempted |-> {}]]

NoOcr == [called |-> FALSE, best_angle |-> 0, scan |-> [a \in AngleSet |-> Raises],
          text |-> <<>>, tried |-> <<>>]

NoNorm == [called |-> FALSE, text |-> <<>>, once |-> <<>>, twice |-> <<>>]

NormIdle == nt = NoNorm

OrientIdle == det = NoDetect

ExtractIdle == xp = NoExtract

OcrIdle == oc = NoOcr

CallsIdle ==
    /\ NormIdle
    /\ OrientIdle
    /\ ExtractIdle
    /\ OcrIdle

----------------------------------------------------------------------------
(* Specification SpecBounds: _find_chunk_bounds on every small input *)

Chars == {"a", "b"}

\* The splitter hands over non-empty pieces only (it drops empty ones), and the
\* cursor is max(0, end_idx - chunk_overlap) of an earlier call or 0.
ChunkTexts == SeqsUpTo(Chars, MaxChunkLen) \ {<<>>}

InitBounds ==
    /\ chunk_overlap \in 0..MaxOverlap
    /\ \E p \in SeqsUpTo(Chars, MaxLen), c \in ChunkTexts,
          s \in 0..(MaxLen + MaxChunkLen) :
          fb = [called |-> FALSE, page_text |-> p, chunk_text |-> c,
                search_start |-> s, result |-> <<0, 0, 0>>]
    /\ IngestIdle
    /\ QueryIdle
    /\ CallsIdle

FindChunkBounds ==
    /\ ~fb.called
    /\ fb' = [fb EXCEPT !.called = TRUE,
                        !.result = _find_chunk_bounds(fb.page_text, fb.chunk_text,
                                                      fb.search_start)]
    /\ UNCHANGED <<call_vars, chunk_overlap, ingest_vars, query_vars>>

NextBounds == FindChunkBounds

SpecBounds == InitBounds /\ [][NextBounds]_vars

\* chunk_text occurs somewhere in page_text
Occurs(page_text, chunk_text) ==
    \E i \in 0..Len(page_text) :
        /\ i + Len(chunk_text) <= Len(page_text)
        /\ Slice(page_text, i, i + Len(chunk_text)) = chunk_text

char_start == fb.result[1]
char_end == fb.result[2]

\* C2: whenever the chunk text is found in the page text (from the cursor or on
\* the retry from the start), the span satisfies
\* 0 <= char_start < char_end <= len(page_text) and
\* page_text[char_start:char_end] == chunk_text.
C2_OffsetCorrect ==
    (fb.called /\ Occurs(fb.page_text, fb.chunk_text)) =>
        /\ 0 <= char_start
        /\ char_start < char_end
        /\ char_end <= Len(fb.page_text)
        /\ Slice(fb.page_text, char_start, char_end) = fb.chunk_text

\* The chunk text occurs only before the cursor, so that the retry finds it.
C2_Witness ==
    /\ fb.called
    /\ Occurs(fb.page_text, fb.chunk_text)
    /\ fb.search_start > 0
    /\ StrFind(fb.page_text, fb.chunk_text, fb.search_start) = -1
    /\ char_start < char_end

----------------------------------------------------------------------------
(* The documents *)

\* What the four strategies yield on a page that has text for them
DirectText == <<"a", "b", " ", " ", "a", "b">>
LayoutText == <<" ", "b", "a">>
TablesText == <<"a", "\n", "b">>
OcrText == <<"b", "\t">>

\* What the splitter may hand back for a page: up to MaxChunks pieces equal to
\* a word of the page (which occurs twice in the direct text), or one piece that
\* occurs nowhere in the page.
Word == <<"a", "b">>
Stray == <<"b", "b">>
ChunkLists == {[i \in 1..k |-> Word] : k \in 1..MaxChunks} \cup {<<Stray>>}

\* A strategy raises, finds nothing, or yields its text
Outcomes(text) == {Raises, Yields(<<>>), Yields(text)}

SeqsFromTo(S, lo, hi) == UNION {[1..k -> S] : k \in lo..hi}

\* A strategy that is never attempted on a page shows nothing of what it would
\* yield there: such fields are fixed to a blank text.
Observed(page) ==
    LET x == ExtractPage(page, TRUE)
    IN  /\ \A s \in {"layout", "tables", "ocr"} :
               s \notin x.attempted => page[s] = Yields(<<>>)
        /\ (x.raised \/ IsBlank(x.raw_text)) => page.chunks = <<>>
        /\ ~(x.raised \/ IsBlank(x.raw_text)) => page.chunks # <<>>

\* Pages for the extraction chain: every outcome of every strategy, the page's
\* text kept whole by the splitter.
ChainPages ==
    {page \in [direct : Outcomes(DirectText),
               layout : Outcomes(LayoutText),
               tables : Outcomes(TablesText),
               ocr : Outcomes(OcrText),
               chunks : {<<>>} \cup {<<_normalize_text(t)>> :
                             t \in {DirectText, LayoutText, TablesText, OcrText}}] :
        /\ Observed(page)
        /\ LET x == ExtractPage(page, TRUE)
           IN  page.chunks # <<>> => page.chunks = <<_normalize_text(x.raw_text)>>}

\* Pages for deduplication: direct text split into any pieces, a blank page,
\* a page that fails.
DedupPages ==
    {page \in [direct : Outcomes(DirectText),
               layout : {Yields(<<>>)},
               tables : {Yields(<<>>)},
               ocr : {Yields(<<>>)},
               chunks : {<<>>} \cup ChunkLists] : Observed(page)}

InitIngest(pages, modes) ==
    /\ chunk_overlap \in 0..MaxOverlap
    /\ fb = NoCall
    /\ OCR_AVAILABLE \in BOOLEAN
    /\ concurrent \in modes
    /\ pdf \in SeqsFromTo(pages, 1, MaxPages)
    /\ collection = <<>>
    /\ run = [r \in Runs |-> IdleRun]
    /\ QueryIdle
    /\ CallsIdle

Init ==
    /\ InitIngest(ChainPages, {FALSE})
    /\ OCR_AVAILABLE \/ \A i \in 1..Len(pdf) : pdf[i].ocr = Yields(<<>>)

Spec == Init /\ [][NextIngest]_vars

InitDedup == InitIngest(DedupPages, {TRUE}) /\ OCR_AVAILABLE

SpecDedup == InitDedup /\ [][NextIngest]_vars

----------------------------------------------------------------------------
(* Claims on process_pdf *)

Finished(r) == run[r].pc \in {"done", "raised"}

\* C1: when one process_pdf call on the document has returned before a second
\* call on the same document starts, both calls generate the same sequence of
\* chunk ids, the second reports chunks_added == 0 and chunks_skipped equal to
\* the first call's chunk count, and the store is the same after the second
\* call as after the first.
C1_Idempotent ==
    \A r1 \in Runs, r2 \in Runs :
        (r1 \in run[r2].after /\ run[r2].pc = "done") =>
            /\ run[r2].all_ids = run[r1].all_ids
            /\ run[r2].stats.chunks_added = 0
            /\ run[r2].stats.chunks_skipped = Len(run[r1].all_ids)
            /\ run[r2].store_at_return = run[r1].store_at_return
            /\ collection = run[r1].store_at_return

\* A second call that found two pages' chunks in the store
C1_Witness ==
    \E r1 \in Runs, r2 \in Runs :
        /\ r1 \in run[r2].after
        /\ run[r2].pc = "done"
        /\ run[r1].stats.chunks_added >= 2
        /\ run[r2].stats.chunks_skipped >= 2
        /\ run[r2].stats.pages = 2

\* C8: an error raised by an extraction strategy is swallowed, and process_pdf
\* goes on with the remaining pages and returns its stats: no call ever ends
\* with the error.
C8_NeverAborts == \A r \in Runs : run[r].pc # "raised"

\* The items a single call writes for the document: those of every page with
\* text before the first page whose extraction raises.
SingleRunItems ==
    LET bad == {i \in 1..Len(pdf) : ExtractPage(pdf[i], OCR_AVAILABLE).raised}
        last == IF bad = {} THEN Len(pdf) ELSE Min(bad) - 1
        items(i) ==
            LET text == _normalize_text(ExtractPage(pdf[i], OCR_AVAILABLE).raw_text)
                payload == BuildPayload(PdfPath, i, text, pdf[i].chunks, 0, 0)
            IN  IF text = <<>> THEN {} ELSE {payload[k] : k \in 1..Len(payload)}
    IN  UNION {items(i) : i \in 1..last}

\* C9: under every interleaving of two process_pdf calls on the same document
\* the store never holds two entries with one chunk id, and when both calls have
\* ended its contents are those of a single call.
C9_NoDoubleInsert ==
    /\ \A i \in 1..Len(collection), j \in 1..Len(collection) :
           collection[i].id = collection[j].id => i = j
    /\ (\A r \in Runs : Finished(r)) =>
           {collection[i] : i \in 1..Len(collection)} = SingleRunItems

\* Both calls looked up a page before either wrote it, and both wrote it.
C9_Witness ==
    /\ \A r \in Runs : run[r].pc = "done" /\ run[r].stats.chunks_added >= 2
    /\ Len(collection) >= 2

----------------------------------------------------------------------------
(* Specification SpecBudget: retrieve_chunks on every small ranked list *)

InitBudget ==
    /\ chunk_overlap = 0
    /\ fb = NoCall
    /\ IngestIdle
    /\ CallsIdle
    /\ bc = NoCite
    /\ qry = IdleQuery
    /\ \E c \in SeqsUpTo({Chunk("A.pdf", 1, n) : n \in 1..MaxDocLen}, MaxRanked),
          m \in 0..MaxBudget :
          bq = [called |-> FALSE, combined |-> c, max_chars |-> m, filtered |-> <<>>]

RetrieveChunks ==
    /\ ~bq.called
    /\ bq' = [bq EXCEPT !.called = TRUE,
                        !.filtered = retrieve_chunks(bq.combined, bq.max_chars)]
    /\ UNCHANGED <<call_vars, chunk_overlap, fb, ingest_vars, bc, qry>>

SpecBudget == InitBudget /\ [][RetrieveChunks]_vars

Prefix(seq, k) == SubSeq(seq, 1, k)

\* C4: the list retrieve_chunks returns is a prefix of the ranked list, its
\* total text length is <= max_chars, and it is the longest such prefix: it is
\* the whole list, or the next chunk would exceed max_chars, and no longer
\* prefix fits.
C4_LongestPrefix ==
    bq.called =>
        LET k == Len(bq.filtered)
            n == Len(bq.combined)
        IN  /\ k <= n
            /\ bq.filtered = Prefix(bq.combined, k)
            /\ TotalChars(bq.filtered) <= bq.max_chars
            /\ k = n \/ TotalChars(Prefix(bq.combined, k + 1)) > bq.max_chars
            /\ \A j \in (k + 1)..n : TotalChars(Prefix(bq.combined, j)) > bq.max_chars

\* A prefix that fills the budget exactly and leaves a chunk out
C4_Witness ==
    /\ bq.called
    /\ bq.filtered # <<>>
    /\ Len(bq.filtered) < Len(bq.combined)
    /\ TotalChars(bq.filtered) = bq.max_chars

----------------------------------------------------------------------------
(* Specification SpecCite: build_citations on every small answer and list *)

Sources == {"A.pdf", "B.pdf"}

\* Markers of pages 1 and 2 (written "02") and of a page no chunk has
Pieces == {Text, Near(<<1>>), Marker(<<1>>), Marker(<<0, 2>>), Marker(<<3>>)}

Answers == SeqsUpTo(Pieces, MaxTokens)

CiteChunks == {Chunk(f, p, n) : f \in Sources, p \in {1, 2}, n \in {SnippetLen, SnippetLen + 1}}

InitCite ==
    /\ chunk_overlap = 0
    /\ fb = NoCall
    /\ IngestIdle
    /\ CallsIdle
    /\ bq = NoBudget
    /\ qry = IdleQuery
    /\ \E a \in Answers, c \in SeqsUpTo(CiteChunks, MaxRanked) :
          bc = [called |-> FALSE, answer |-> a, chunks |-> c, citations |-> <<>>]

BuildCitations ==
    /\ ~bc.called
    /\ bc' = [bc EXCEPT !.called = TRUE,
                        !.citations = build_citations(bc.answer, bc.chunks)]
    /\ UNCHANGED <<call_vars, chunk_overlap, fb, ingest_vars, bq, qry>>

SpecCite == InitCite /\ [][BuildCitations]_vars

\* The positions of the answer's markers, and the k-th of them from the left
MarkerAt(answer) == {i \in 1..Len(answer) : answer[i].kind = "marker"}

KthMarker(answer, k) ==
    CHOOSE i \in MarkerAt(answer) :
        Cardinality({j \in MarkerAt(answer) : j < i}) = k - 1

\* The page the k-th marker names
PageOf(answer, k) == IntOf(answer[KthMarker(answer, k)].digits)

Resolvable(answer, chunks) ==
    {k \in 1..Cardinality(MarkerAt(answer)) : HasPage(chunks, PageOf(answer, k))}

\* chunk is the first chunk of the ranked list with that page number
FirstOfPage(chunks, chunk, page_num) ==
    \E i \in 1..Len(chunks) :
        /\ chunks[i] = chunk
        /\ chunk.metadata.page_number = page_num
        /\ \A j \in 1..(i - 1) : chunks[j].metadata.page_number # page_num

\* C5: with a non-empty chunk list and an answer no marker of which names a
\* retrieved page, build_citations returns exactly one citation, with id 1 and
\* the source_file and page_number of the first chunk; and it returns an empty
\* list only when the chunk list is empty.
C5_Fallback ==
    bc.called =>
        /\ (bc.chunks # <<>> /\ Resolvable(bc.answer, bc.chunks) = {}) =>
               /\ Len(bc.citations) = 1
               /\ bc.citations[1].id = 1
               /\ bc.citations[1].source_file = bc.chunks[1].metadata.source_file
               /\ bc.citations[1].page_number = bc.chunks[1].metadata.page_number
        /\ bc.citations = <<>> => bc.chunks = <<>>

\* A marker names an absent page; the first and the last chunk differ.
C5_Witness ==
    /\ bc.called
    /\ Len(bc.chunks) >= 2
    /\ bc.chunks[1].metadata # bc.chunks[Len(bc.chunks)].metadata
    /\ MarkerAt(bc.answer) # {}
    /\ Resolvable(bc.answer, bc.chunks) = {}
    /\ Len(bc.citations) = 1

\* C6: each marker whose page is the page_number of a retrieved chunk yields
\* one citation, carrying the source_file and page_number of the first chunk in
\* ranked order with that page_number; a marker whose page no retrieved chunk
\* has yields none; every citation's (source_file, page_number) is that of a
\* retrieved chunk.
C6_Resolution ==
    bc.called =>
        LET res == Resolvable(bc.answer, bc.chunks)
            of(k) == {j \in 1..Len(bc.citations) : bc.citations[j].id = k}
        IN  /\ \A k \in res :
                   /\ Cardinality(of(k)) = 1
                   /\ \A j \in of(k) :
                          \E i \in 1..Len(bc.chunks) :
                              /\ FirstOfPage(bc.chunks, bc.chunks[i], PageOf(bc.answer, k))
                              /\ bc.citations[j].source_file =
                                     bc.chunks[i].metadata.source_file
                              /\ bc.citations[j].page_number = PageOf(bc.answer, k)
            /\ res # {} =>
                   /\ Len(bc.citations) = Cardinality(res)
                   /\ \A k \in 1..Cardinality(MarkerAt(bc.answer)) :
                          k \notin res => of(k) = {}
            /\ \A j \in 1..Len(bc.citations) :
                   \E i \in 1..Len(bc.chunks) :
                       /\ bc.chunks[i].metadata.source_file = bc.citations[j].source_file
                       /\ bc.chunks[i].metadata.page_number = bc.citations[j].page_number

\* Two chunks of one page from different files; one marker names that page and
\* another names an absent page.
C6_Witness ==
    /\ bc.called
    /\ Len(bc.chunks) >= 2
    /\ bc.chunks[1].metadata.page_number = bc.chunks[2].metadata.page_number
    /\ bc.chunks[1].metadata.source_file # bc.chunks[2].metadata.source_file
    /\ Resolvable(bc.answer, bc.chunks) # {}
    /\ Cardinality(MarkerAt(bc.answer)) > Cardinality(Resolvable(bc.answer, bc.chunks))
    /\ Len(bc.citations) = 1

\* C10: the k-th marker match from the left has id k; each citation made from a
\* marker carries the id of its own match, and the citations come in the order
\* of their markers.
C10_Ids ==
    (bc.called /\ Resolvable(bc.answer, bc.chunks) # {}) =>
        /\ \A j \in 1..Len(bc.citations) :
               /\ bc.citations[j].id \in Resolvable(bc.answer, bc.chunks)
               /\ bc.citations[j].page_number = PageOf(bc.answer, bc.citations[j].id)
        /\ \A j1 \in 1..Len(bc.citations), j2 \in 1..Len(bc.citations) :
               j1 < j2 => bc.citations[j1].id < bc.citations[j2].id

\* The first marker is dropped, so the only citation has id 2.
C10_Witness ==
    /\ bc.called
    /\ Len(bc.citations) = 1
    /\ bc.citations[1].id = 2

\* C11: every citation's snippet, from a marker or from the fallback, is the
\* cited chunk's text when that has at most 250 characters, and otherwise its
\* first 250 characters followed by "...".
C11_Snippet ==
    bc.called =>
        \A j \in 1..Len(bc.citations) :
            \E i \in 1..Len(bc.chunks) :
                LET document == bc.chunks[i].document
                    snippet == bc.citations[j].snippet
                IN  /\ snippet.of = document.body
                    /\ document.len <= SnippetLen =>
                           snippet.chars = document.len /\ ~snippet.dots
                    /\ document.len > SnippetLen =>
                           snippet.chars = SnippetLen /\ snippet.dots

----------------------------------------------------------------------------
(* Specification SpecQuery: one /query request *)

\* What the store may return: chunks as above, and one longer than the budget
QueryChunks == CiteChunks \cup {Chunk("A.pdf", 1, DefaultMaxChars + 1)}

InitQuery ==
    /\ chunk_overlap = 0
    /\ fb = NoCall
    /\ IngestIdle
    /\ CallsIdle
    /\ bq = NoBudget
    /\ bc = NoCite
    /\ qry = IdleQuery

Respond(status, answer_text, citations, error) ==
    [status |-> status, answer_text |-> answer_text, citations |-> citations,
     error |-> error]

\* A variant that answers a failure like a request that found nothing.
OnException_refusal(exc) == Respond(200, Refusal, <<>>, "")

\* app.py 69-71: except Exception as exc: return {"error": str(exc)}, 500
OnException(exc) == Respond(500, <<>>, <<>>, exc)

\* app.py 62-65: the question is read; a blank one is refused with 400
Receive ==
    /\ qry.pc = "idle"
    /\ \E question \in {<<>>, <<"q">>} :
          qry' = IF question = <<>>
                 THEN [qry EXCEPT !.pc = "responded",
                                  !.response = Respond(400, <<>>, <<>>, "question required")]
                 ELSE [qry EXCEPT !.pc = "retrieve"]
    /\ UNCHANGED <<call_vars, chunk_overlap, fb, ingest_vars, bq, bc>>

\* query.py 176-182 with retrieve_chunks: the store is queried (it may fail,
\* app.py 69-71), the results are budgeted, and an empty list ends the request.
Retrieve ==
    /\ qry.pc = "retrieve"
    /\ \/ qry' = [qry EXCEPT !.pc = "responded",
                             !.fault = "store",
                             !.response = OnException("store query failed")]
       \/ \E results \in SeqsUpTo(QueryChunks, MaxRanked) :
              LET chunks == retrieve_chunks(results, DefaultMaxChars)
              IN  qry' = IF NoChunks(chunks)
                         THEN [qry EXCEPT !.retrieved = TRUE,
                                          !.results = results,
                                          !.chunks = chunks,
                                          !.pc = "responded",
                                          !.response = Respond(200, Refusal, <<>>, "")]
                         ELSE [qry EXCEPT !.retrieved = TRUE,
                                          !.results = results,
                                          !.chunks = chunks,
                                          !.pc = "generate"]
    /\ UNCHANGED <<call_vars, chunk_overlap, fb, ingest_vars, bq, bc>>

\* query.py 184-188, app.py 67-77: the generator is called; it raises, returns
\* no text (call_gemini raises), or returns an answer, whose citations are built.
Generate ==
    /\ qry.pc = "generate"
    /\ \/ \E error \in {"generate_content failed", "No text returned from Gemini."} :
              qry' = [qry EXCEPT !.gen_calls = @ + 1,
                                 !.pc = "responded",
                                 !.fault = "generator",
                                 !.response = OnException(error)]
       \/ \E answer \in Answers :
              qry' = [qry EXCEPT !.gen_calls = @ + 1,
                                 !.pc = "responded",
                                 !.response = Respond(200, answer,
                                                      build_citations(answer, qry.chunks),
                                                      "")]
    /\ UNCHANGED <<call_vars, chunk_overlap, fb, ingest_vars, bq, bc>>

NextQuery == Receive \/ Retrieve \/ Generate

SpecQuery == InitQuery /\ [][NextQuery]_vars

\* C7: whenever the budgeted chunk list is empty, the request ends with the
\* fixed refusal text and an empty citation list, and the generator is not
\* called on it.
C7_ShortCircuit ==
    (qry.retrieved /\ qry.chunks = <<>>) =>
        /\ qry.pc = "responded"
        /\ qry.response = Respond(200, Refusal, <<>>, "")
        /\ qry.gen_calls = 0

\* The store returned chunks, the first of which alone exceeds the budget.
C7_Witness ==
    /\ qry.retrieved
    /\ qry.results # <<>>
    /\ qry.chunks = <<>>
    /\ qry.pc = "responded"

\* C12: when the store query fails or the generator produces no text, the
\* request ends in one error response: status 500 with the error's text, no
\* answer and no citations, which is not the refusal answer of a request that
\* retrieved nothing.
C12_ErrorOutcome ==
    qry.fault # "none" =>
        /\ qry.pc = "responded"
        /\ qry.response.status = 500
        /\ qry.response.error # ""
        /\ qry.response.answer_text = <<>>
        /\ qry.response.citations = <<>>
        /\ qry.response # Respond(200, Refusal, <<>>, "")

\* The generator returned no text after chunks were retrieved.
C12_Witness ==
    /\ qry.fault = "generator"
    /\ qry.chunks # <<>>
    /\ qry.response.error = "No text returned from Gemini."

----------------------------------------------------------------------------
(* Specification SpecNorm: _normalize_text on every small text, and again on *)
(* its own result                                                            *)

NormChars == {"a", "b", " ", "\n"}

InitNorm ==
    /\ chunk_overlap = 0
    /\ fb = NoCall
    /\ IngestIdle
    /\ QueryIdle
    /\ \E text \in SeqsUpTo(NormChars, MaxNormLen) :
          nt = [NoNorm EXCEPT !.text = text]
    /\ OrientIdle
    /\ ExtractIdle
    /\ OcrIdle

NormalizeText ==
    /\ ~nt.called
    /\ nt' = [nt EXCEPT !.called = TRUE,
                        !.once = _normalize_text(nt.text),
                        !.twice = _normalize_text(_normalize_text(nt.text))]
    /\ UNCHANGED <<chunk_overlap, fb, ingest_vars, query_vars, det, xp, oc>>

NextNorm == NormalizeText

SpecNorm == InitNorm /\ [][NextNorm]_vars

\* The words of a text: its maximal runs of non-whitespace characters, as
\* <<first, last>> positions.
WordSpans(text) ==
    {sp \in (1..Len(text)) \X (1..Len(text)) :
        /\ sp[1] <= sp[2]
        /\ \A i \in sp[1]..sp[2] : ~IsSpace(text[i])
        /\ sp[1] = 1 \/ IsSpace(text[sp[1] - 1])
        /\ sp[2] = Len(text) \/ IsSpace(text[sp[2] + 1])}

\* The k-th word of a text, counting from 1
KthWord(text, k) ==
    LET sp == CHOOSE x \in WordSpans(text) :
                  Cardinality({y \in WordSpans(text) : y[1] < x[1]}) = k - 1
    IN  SubSeq(text, sp[1], sp[2])

\* C13: _normalize_text returns the words of the text in their order joined by
\* single spaces: the result has the same words, no whitespace but the single
\* space between two words, is empty exactly when the text is empty or
\* whitespace only, and is left unchanged by a second application.
C13_Normalized ==
    nt.called =>
        LET n == Cardinality(WordSpans(nt.text))
            r == nt.once
        IN  /\ Cardinality(WordSpans(r)) = n
            /\ \A k \in 1..n : KthWord(r, k) = KthWord(nt.text, k)
            /\ \A i \in 1..Len(r) : IsSpace(r[i]) => r[i] = " "
            /\ r # <<>> => ~IsSpace(r[1]) /\ ~IsSpace(r[Len(r)])
            /\ \A i \in 1..(Len(r) - 1) : ~(IsSpace(r[i]) /\ IsSpace(r[i + 1]))
            /\ (r = <<>>) <=> IsBlank(nt.text)
            /\ nt.twice = r

\* A text with leading whitespace and a run of two different whitespace
\* characters between its two words.
C13_Witness ==
    /\ nt.called
    /\ nt.text = <<" ", "a", "\n", " ", "b">>
    /\ nt.once = <<"a", " ", "b">>

----------------------------------------------------------------------------
(* Specification SpecOrient: _detect_orientation on every small OSD report   *)
(* and every outcome of OCR on the four rotations                            *)

OsdLines == {OsdLine(FALSE, FALSE, 0), OsdLine(TRUE, FALSE, 0), OsdLine(TRUE, TRUE, 90)}

OsdOutcomes ==
    {[ok |-> FALSE, lines |-> <<>>]}
        \cup {[ok |-> TRUE, lines |-> ls] : ls \in SeqsUpTo(OsdLines, MaxOsdLines)}

\* What OCR reads: some letters, possibly followed by whitespace
ProbeTexts ==
    LET letters == {[i \in 1..k |-> "a"] : k \in 0..MaxProbeLen}
    IN  letters \cup {t \o <<" ">> : t \in letters}

ProbeOutcomes == {Raises} \cup {Yields(t) : t \in ProbeTexts}

InitOrient ==
    /\ chunk_overlap = 0
    /\ fb = NoCall
    /\ IngestIdle
    /\ QueryIdle
    /\ NormIdle
    /\ \E osd \in OsdOutcomes, probe \in [AngleSet -> ProbeOutcomes] :
          det = [NoDetect EXCEPT !.osd = osd, !.probe = probe]
    /\ ExtractIdle
    /\ OcrIdle

DetectOrientation ==
    /\ ~det.called
    /\ det' = [det EXCEPT !.called = TRUE,
                          !.angle = _detect_orientation(det.osd, det.probe)]
    /\ UNCHANGED <<chunk_overlap, fb, ingest_vars, query_vars, nt, xp, oc>>

NextOrient == DetectOrientation

SpecOrient == InitOrient /\ [][NextOrient]_vars

\* OSD raised, or none of its lines gives an angle
NoUsableAngle(osd) ==
    \/ ~osd.ok
    \/ \A i \in 1..Len(osd.lines) : ~(osd.lines[i].keyed /\ osd.lines[i].parses)

\* The number of characters OCR read at a rotation, whitespace at either end
\* not counted; none when OCR raised.
StrippedLen(outcome) ==
    IF ~outcome.ok THEN 0
    ELSE Cardinality({i \in 1..Len(outcome.text) :
             /\ \E j \in 1..i : ~IsSpace(outcome.text[j])
             /\ \E j \in i..Len(outcome.text) : ~IsSpace(outcome.text[j])})

\* C14: when OSD raises or reports no usable angle, the angle returned is one
\* of 0, 90, 180, 270, no rotation has a longer stripped text, every lower
\* rotation has a strictly shorter one, and so it is 0 when every rotation is
\* empty or raises.
C14_BruteForce ==
    (det.called /\ NoUsableAngle(det.osd)) =>
        /\ det.angle \in AngleSet
        /\ \A b \in AngleSet : StrippedLen(det.probe[b]) <= StrippedLen(det.probe[det.angle])
        /\ \A b \in AngleSet :
               b < det.angle => StrippedLen(det.probe[b]) < StrippedLen(det.probe[det.angle])
        /\ (\A b \in AngleSet : StrippedLen(det.probe[b]) = 0) => det.angle = 0

\* OSD reported lines without an angle; rotation 0 raised, 90 and 270 tie for
\* the longest stripped text and 180 read whitespace only.
C14_Witness ==
    /\ det.called
    /\ det.osd.ok /\ det.osd.lines # <<>> /\ NoUsableAngle(det.osd)
    /\ det.probe[0] = Raises
    /\ det.probe[90] = Yields(<<"a", " ">>)
    /\ det.probe[180] = Yields(<<" ">>)
    /\ det.probe[270] = Yields(<<"a">>)
    /\ det.angle = 90

----------------------------------------------------------------------------
(* Specification SpecExtract: the extraction chain of process_pdf on one     *)
(* page, for every combination of what the four strategies do there          *)

\* What a strategy may do: raise, read nothing, read whitespace, read a text
StrategyOutcomes(text) == {Raises, Yields(<<>>), Yields(<<" ">>), Yields(text)}

InitExtract ==
    /\ chunk_overlap = 0
    /\ fb = NoCall
    /\ IngestIdle
    /\ QueryIdle
    /\ NormIdle
    /\ OrientIdle
    /\ \E d \in StrategyOutcomes(<<"d">>), l \in StrategyOutcomes(<<"l">>),
          t \in StrategyOutcomes(<<"t">>), o \in StrategyOutcomes(<<"o">>),
          available \in BOOLEAN :
          xp = [NoExtract EXCEPT !.page = [direct |-> d, layout |-> l, tables |-> t,
                                           ocr |-> o],
                                 !.ocr_available = available]
    /\ OcrIdle

ExtractOnePage ==
    /\ ~xp.called
    /\ xp' = [xp EXCEPT !.called = TRUE,
                        !.out = ExtractPage(xp.page, xp.ocr_available)]
    /\ UNCHANGED <<chunk_overlap, fb, ingest_vars, query_vars, nt, det, oc>>

NextExtract == ExtractOnePage

SpecExtract == InitExtract /\ [][NextExtract]_vars

\* The k-th strategy read a non-blank text on the page
Produced(page, k) == page[Strategies[k]].ok /\ ~IsBlank(page[Strategies[k]].text)

\* C15: on a page whose direct extraction returns, a strategy is attempted
\* exactly when no earlier strategy read a non-blank text (and, for OCR, when
\* OCR is available), and the raw text is what the first strategy to read a
\* non-blank text read; it is blank when none did.
C15_Ordering ==
    (xp.called /\ ~xp.out.raised) =>
        LET attempted == xp.out.attempted
            hits == {k \in 1..Len(Strategies) :
                        Strategies[k] \in attempted /\ Produced(xp.page, k)}
        IN  /\ \A k \in 1..Len(Strategies) :
                   Strategies[k] \in attempted <=>
                       /\ \A j \in 1..(k - 1) : ~Produced(xp.page, j)
                       /\ Strategies[k] = "ocr" => xp.ocr_available
            /\ IF hits = {} THEN IsBlank(xp.out.raw_text)
               ELSE xp.out.raw_text = xp.page[Strategies[Min(hits)]].text

\* Direct read whitespace, layout raised, tables read a text: OCR, which would
\* have read one too, is not attempted.
C15_Witness ==
    /\ xp.called
    /\ xp.page.direct = Yields(<<" ">>)
    /\ xp.page.layout = Raises
    /\ xp.page.tables = Yields(<<"t">>)
    /\ xp.page.ocr = Yields(<<"o">>)
    /\ xp.ocr_available
    /\ xp.out.attempted = {"direct", "layout", "tables"}
    /\ xp.out.raw_text = <<"t">>

----------------------------------------------------------------------------
(* Specification SpecOcr: extract_text_with_ocr_from_image for every         *)
(* detected rotation and every outcome of OCR on the four rotations          *)

\* What OCR reads at a rotation when it reads something
Reads(angle) ==
    IF angle = 0 THEN <<"a">>
    ELSE IF angle = 90 THEN <<"b">>
    ELSE IF angle = 180 THEN <<"c">>
    ELSE <<"d">>

InitOcr ==
    /\ chunk_overlap = 0
    /\ fb = NoCall
    /\ IngestIdle
    /\ QueryIdle
    /\ NormIdle
    /\ OrientIdle
    /\ ExtractIdle
    /\ \E best_angle \in AngleSet,
          scan \in [AngleSet -> {Raises, Yields(<<>>), Yields(<<" ">>), Yields(<<"x">>)}] :
          oc = [NoOcr EXCEPT
                    !.best_angle = best_angle,
                    !.scan = [a \in AngleSet |->
                                 IF scan[a] = Yields(<<"x">>) THEN Yields(Reads(a))
                                 ELSE scan[a]]]

ExtractWithOcr ==
    /\ ~oc.called
    /\ LET r == extract_text_with_ocr_from_image(oc.best_angle, oc.scan)
       IN  oc' = [oc EXCEPT !.called = TRUE, !.text = r.text, !.tried = r.tried]
    /\ UNCHANGED <<chunk_overlap, fb, ingest_vars, query_vars, nt, det, xp>>

NextOcr == ExtractWithOcr

SpecOcr == InitOcr /\ [][NextOcr]_vars

\* The text OCR gives at a rotation; none when it fails
RotationText(a) == IF oc.scan[a].ok THEN oc.scan[a].text ELSE <<>>

\* The detected rotation is tried first, then the others in ascending order
\* without a gap, each only after all before it read blank text; the last one
\* tried read non-blank text or was the fourth; the text of the last one tried
\* is returned.
RetryOrder ==
    LET tried == oc.tried
        n == Len(tried)
    IN  /\ n >= 1 /\ tried[1] = oc.best_angle
        /\ \A i \in 2..n : tried[i] \in AngleSet \ {oc.best_angle}
        /\ \A i, j \in 2..n : i < j => tried[i] < tried[j]
        /\ \A i \in 2..n : \A a \in AngleSet \ {oc.best_angle} :
               a < tried[i] => \E j \in 2..(i - 1) : tried[j] = a
        /\ \A i \in 1..(n - 1) : IsBlank(RotationText(tried[i]))
        /\ IsBlank(RotationText(tried[n])) => {tried[i] : i \in 1..n} = AngleSet
        /\ oc.text = RotationText(tried[n])
        /\ ~IsBlank(oc.text) <=> \E i \in 1..n : ~IsBlank(RotationText(tried[i]))

\* C16 as stated: the retry order above, and the empty text is returned when
\* every rotation reads blank text.
C16_EmptyWhenBlank ==
    oc.called =>
        /\ RetryOrder
        /\ (\A a \in AngleSet : IsBlank(RotationText(a))) => oc.text = <<>>

\* C16: the retry order above; when every rotation reads blank text, all four
\* were tried and the text returned is that of the last one tried, which is
\* blank but may be whitespace.
C16_Retry ==
    oc.called =>
        /\ RetryOrder
        /\ (\A a \in AngleSet : IsBlank(RotationText(a))) =>
               /\ Len(oc.tried) = Len(Angles)
               /\ IsBlank(oc.text)
               /\ oc.text = RotationText(oc.tried[Len(oc.tried)])

\* Rotation 90 was detected; every rotation read blank text, the last one
\* whitespace, which is what is returned.
C16_Witness ==
    /\ oc.called
    /\ oc.best_angle = 90
    /\ oc.scan[270] = Yields(<<" ">>)
    /\ oc.tried = <<90, 0, 180, 270>>
    /\ oc.text = <<" ">>

----------------------------------------------------------------------------
(* Specification SpecStale: process_pdf on a store that already holds, under *)
(* one of the document's ids, an entry with another text                     *)

OldText == <<"o", "l", "d">>

\* An entry under the item's id whose text and hash are not the item's
StaleOf(item) ==
    [item EXCEPT !.document = OldText, !.metadata.chunk_sha = _chunk_sha(OldText)]

InitStale ==
    /\ chunk_overlap \in 0..MaxOverlap
    /\ fb = NoCall
    /\ OCR_AVAILABLE = TRUE
    /\ concurrent = FALSE
    /\ pdf \in SeqsFromTo(DedupPages, 1, MaxPages)
    /\ collection \in {<<>>} \cup {<<StaleOf(item)>> : item \in SingleRunItems}
    /\ run = [r \in Runs |-> IdleRun]
    /\ QueryIdle
    /\ CallsIdle

SpecStale == InitStale /\ [][NextIngest]_vars

\* Page n of the document has text
NonBlankPage(n) ==
    LET x == ExtractPage(pdf[n], OCR_AVAILABLE)
    IN  ~x.raised /\ ~IsBlank(x.raw_text)

\* The candidate items of page n
Candidates(n) ==
    BuildPayload(PdfPath, n, _normalize_text(ExtractPage(pdf[n], OCR_AVAILABLE).raw_text),
                 pdf[n].chunks, 0, 0)

----------------------------------------------------------------------------
(* The statistics of process_pdf *)

\* The pages a call has gone through
Visited(r) == 1..run[r].page_index

\* The visited pages without text
BlankVisited(r) == {n \in Visited(r) : ~NonBlankPage(n)}

\* C18: between two pages and at the return, pages is the number of pages
\* visited; empty_pages is the number of visited pages without text; the
\* lookups made are as many as the other visited pages, and the add calls no
\* more, so a page without text caused neither; ocr_pages counts pages whose
\* text is OCR's, none of them without text, so empty_pages + ocr_pages <=
\* pages; chunks_added + chunks_skipped is the number of chunks of the visited
\* pages with text.
C18_StatsConsistent ==
    \A r \in Runs :
        run[r].pc \in {"page", "done"} =>
            LET st == run[r].stats
                blank == BlankVisited(r)
                ocr == {n \in Visited(r) : ExtractPage(pdf[n], OCR_AVAILABLE).ocr_used}
            IN  /\ st.pages = run[r].page_index
                /\ st.empty_pages = Cardinality(blank)
                /\ run[r].get_calls = Cardinality(Visited(r) \ blank)
                /\ run[r].add_calls <= run[r].get_calls
                /\ st.ocr_pages = Cardinality(ocr)
                /\ ocr \cap blank = {}
                /\ st.empty_pages + st.ocr_pages <= st.pages
                /\ st.chunks_added + st.chunks_skipped =
                       Cardinality({q \in (Visited(r) \ blank) \X (1..MaxChunks) :
                                       q[2] <= Len(pdf[q[1]].chunks)})

\* A call has returned from a document with one page without text and one
\* page read by OCR.
C18_Witness ==
    \E r \in Runs :
        /\ run[r].pc = "done"
        /\ run[r].stats.pages = 2
        /\ run[r].stats.empty_pages = 1
        /\ run[r].stats.ocr_pages = 1
        /\ run[r].stats.chunks_added = 1
        /\ run[r].get_calls = 1

====
